---- MODULE Spec2Model ----
(***************************************************************************)
(* A model of the gRPC tracing interceptors of package obs: the four       *)
(* interceptors, the client and server stream proxies and the grpcTraceMD  *)
(* carrier.  Strings that the code takes apart (metadata values) are       *)
(* sequences of byte values; all other strings are TLA+ strings.  The      *)
(* last part models projectTracker of package topk.                        *)
(***************************************************************************)
EXTENDS Integers, Sequences, FiniteSets, TLC

(***************************************************************************)
(* Bounds of the model.                                                    *)
(***************************************************************************)
\* most stream operations (SendMsg, RecvMsg, ...) performed on one proxy
MaxOps == 3
\* most pairs a tracer writes when it injects into a call's metadata
MaxSets == 2
\* most Set calls made on the carrier under test
MaxCarrierSets == 2
\* the visitor of ForeachKey may fail at its 1st .. MaxVisitorErrAt-th call
MaxVisitorErrAt == 2
\* most SendMsg calls of the concurrent sender
MaxSends == 2
\* most RecvMsg calls of the concurrent receiver
MaxRecvs == 2
\* projects the tracker has counted before a run of flushes starts: one more
\* than two batches hold
PreTracked == 201
\* most Track calls made during the run
MaxTracks == 2
\* most ticks the ticker delivers during the run
MaxTicks == 1

(***************************************************************************)
(* Metadata: metadata.MD is map[string][]string.  A key that is absent and *)
(* a key with an empty list behave alike under append and range.           *)
(***************************************************************************)
TraceKey == "trace-id"
PlainKey == "user-key"
BinKey == "baggage-bin"
Keys == {TraceKey, PlainKey, BinKey}

\* strings.HasSuffix(k, "-bin"), on the keys of the model
HasBinSuffix(k) == k = BinKey

\* metadata values as byte sequences: "", "A", "!", "QQ==", "AAAA", "QQ=!"
ValEmpty == <<>>
ValA == <<65>>
ValBang == <<33>>
ValQQpad == <<81, 81, 61, 61>>
ValAAAA == <<65, 65, 65, 65>>
ValQQbad == <<81, 81, 61, 33>>
\* the values Set is called with
Values == {ValEmpty, ValA, ValQQpad}

EmptyMD == [k \in Keys |-> <<>>]

\* metadata.New(nil)
MDNew == EmptyMD

\* md.Copy(): a new map whose lists are new slices with the same elements
MDCopy(md) == [k \in Keys |-> md[k]]

(***************************************************************************)
(* encoding/base64 StdEncoding.DecodeString, as metadata.DecodeKeyValue    *)
(* applies it to the values of "-bin" keys.                                *)
(***************************************************************************)
PadByte == 61

B64Index ==
    [c \in 0..255 |->
        IF c >= 65 /\ c <= 90 THEN c - 65
        ELSE IF c >= 97 /\ c <= 122 THEN c - 71
        ELSE IF c >= 48 /\ c <= 57 THEN c + 4
        ELSE IF c = 43 THEN 62
        ELSE IF c = 47 THEN 63
        ELSE -1]

B64Valid(c) == B64Index[c] >= 0

\* the three bytes four 6-bit digits a, b, c, d hold
B64Byte1(a, b) == (a * 4 + (b \div 16)) % 256
B64Byte2(b, c) == ((b % 16) * 16 + (c \div 4)) % 256
B64Byte3(c, d) == ((c % 4) * 64 + d) % 256

\* one 4-character quantum is well formed; last = it is the final quantum,
\* the only one that may end in padding
B64QuantumOk(q, last) ==
    /\ B64Valid(q[1]) /\ B64Valid(q[2])
    /\ \/ B64Valid(q[3]) /\ B64Valid(q[4])
       \/ last /\ B64Valid(q[3]) /\ q[4] = PadByte
       \/ last /\ q[3] = PadByte /\ q[4] = PadByte

\* the bytes of a well-formed quantum with 6-bit digits a, b, c, d
B64DigitBytes(q, a, b, c, d) ==
    IF q[3] = PadByte THEN <<B64Byte1(a, b)>>
    ELSE IF q[4] = PadByte THEN <<B64Byte1(a, b), B64Byte2(b, c)>>
    ELSE <<B64Byte1(a, b), B64Byte2(b, c), B64Byte3(c, d)>>

B64QuantumBytes(q) ==
    B64DigitBytes(q, B64Index[q[1]], B64Index[q[2]], B64Index[q[3]], B64Index[q[4]])

\* every quantum of v is well formed and v is a whole number of quanta
B64WellFormed(v) ==
    /\ Len(v) % 4 = 0
    /\ \A i \in 1..(Len(v) \div 4) :
           B64QuantumOk(SubSeq(v, 4 * i - 3, 4 * i), i = Len(v) \div 4)

\* the bytes of the quanta of v, in order
B64Bytes(v) ==
    LET upTo[i \in 0..(Len(v) \div 4)] ==
            IF i = 0 THEN <<>>
            ELSE upTo[i - 1] \o B64QuantumBytes(SubSeq(v, 4 * i - 3, 4 * i))
    IN  upTo[Len(v) \div 4]

\* base64.StdEncoding.DecodeString(v)
B64DecodeString(v) ==
    IF B64WellFormed(v) THEN [ok |-> TRUE, bytes |-> B64Bytes(v)]
    ELSE [ok |-> FALSE, bytes |-> <<>>]

\* metadata.DecodeKeyValue(k, v): (rk, rv, err), d = the value decoded
DecodeBin(k, d) ==
    IF d.ok THEN [key |-> k, val |-> d.bytes, err |-> "nil"]
    ELSE [key |-> "", val |-> <<>>, err |-> "decode"]

DecodeKeyValue(k, v) ==
    IF ~HasBinSuffix(k) THEN [key |-> k, val |-> v, err |-> "nil"]
    ELSE DecodeBin(k, B64DecodeString(v))

(***************************************************************************)
(* grpcTraceMD, the carrier.                                               *)
(***************************************************************************)
\* Set that replaces the key's list
CarrierSetOverwrite(g, key, val) == [g EXCEPT ![key] = <<val>>]

\* g[key] = append(g[key], val)
CarrierSet(g, key, val) == [g EXCEPT ![key] = Append(g[key], val)]

\* the (key, value) pairs of g in the order "for k, vs := range g; for _, v
\* := range vs" walks them when the map yields its keys in the order `order`
PairsInOrder(g, order) ==
    LET upTo[i \in 0..Len(order)] ==
            IF i = 0 THEN <<>>
            ELSE upTo[i - 1] \o [j \in 1..Len(g[order[i]]) |->
                                    [key |-> order[i], val |-> g[order[i]][j]]]
    IN  upTo[Len(order)]

\* ForeachStep that skips a pair that does not decode and goes on
ForeachStepSkip(st, d, handlerErrAt) ==
    IF st.err # "nil" \/ d.err # "nil" THEN st
    ELSE [visited |-> Append(st.visited, [key |-> d.key, val |-> d.val]),
          err |-> IF Len(st.visited) + 1 = handlerErrAt THEN "handler" ELSE "nil"]

\* one iteration of the loop body, from the loop's state st, on a pair that
\* decodes to d: st.visited = the (rk, rv) the handler was called with so far,
\* st.err = what the loop returned, "nil" while it runs; handlerErrAt = the
\* call (1-based) at which the handler returns an error, 0 when it never does
ForeachStep(st, d, handlerErrAt) ==
    IF st.err # "nil" THEN st
    ELSE IF d.err # "nil" THEN [visited |-> st.visited, err |-> d.err]
    ELSE [visited |-> Append(st.visited, [key |-> d.key, val |-> d.val]),
          err |-> IF Len(st.visited) + 1 = handlerErrAt THEN "handler" ELSE "nil"]

\* the loop over the pairs
ForeachPairs(pairs, handlerErrAt) ==
    LET after[i \in 0..Len(pairs)] ==
            IF i = 0 THEN [visited |-> <<>>, err |-> "nil"]
            ELSE ForeachStep(after[i - 1],
                             DecodeKeyValue(pairs[i].key, pairs[i].val),
                             handlerErrAt)
    IN  after[Len(pairs)]

\* g.ForeachKey(handler)
ForeachKey(g, order, handlerErrAt) ==
    ForeachPairs(PairsInOrder(g, order), handlerErrAt)

\* the orders in which a Go map range may yield the keys
KeyOrders == {o \in [1..Cardinality(Keys) -> Keys] :
                 \A i, j \in 1..Cardinality(Keys) : i # j => o[i] # o[j]}


(***************************************************************************)
(* Values of the interceptors' world.                                      *)
(***************************************************************************)
Nil == "nil"
EOF == "io.EOF"
ErrBoom == "ErrBoom"
ErrDeadline == "context.DeadlineExceeded"
ErrCanceled == "context.Canceled"
\* errors an invoker, streamer or handler may return
CallErrors == {ErrBoom, ErrDeadline, ErrCanceled}
\* errors a stream operation may return besides io.EOF
StreamErrors == {ErrBoom}

\* fmt.Sprintf("%v", err)
Render(err) ==
    IF err = ErrBoom THEN "boom"
    ELSE IF err = ErrDeadline THEN "context deadline exceeded"
    ELSE IF err = ErrCanceled THEN "context canceled"
    ELSE IF err = EOF THEN "EOF"
    ELSE "<nil>"

Method == "/pkg.Service/Method"
\* traceHostname, set by init() from os.Hostname()
traceHostname == "host-1"

\* ss.Context() / cs.Context(): the context of the underlying stream
StreamCtx == "stream-ctx"
\* no context held
NoCtx == "none"

\* ContextWithSpan that hands back the context it was given
ContextWithSpanDropped(ctx, name) == ctx

\* fr.WithNewSpanContext(ctx, name, spanCtx) and
\* opentracing.ContextWithSpan(ctx, span): a child of ctx that carries the
\* span; a context is written as the path from its root
ContextWithSpan(ctx, name) == ctx \o ">span(" \o name \o ")"

\* what a unary invoker/handler may hand back as the response
Responses == {"resp-1", "nil-resp"}

\* a response or stream value: proxy = it is a stream proxy built by the
\* interceptor, val = the response, or the stream the proxy wraps
Plain(v) == [proxy |-> FALSE, val |-> v]
NoResult == [err |-> Nil, resp |-> Plain("none")]

(***************************************************************************)
(* Spans.  A tag that was never set is "" (strings), FALSE (error) or -1   *)
(* (the message counts).                                                   *)
(***************************************************************************)
NoSpanCtx == [found |-> FALSE, id |-> <<>>]
NoSpan ==
    [name |-> "", parent |-> NoSpanCtx, kind |-> "", error |-> FALSE,
     hostname |-> "", errorMessage |-> "", received |-> -1, sent |-> -1]

\* fr.WithNewSpan(ctx, name)
WithNewSpan(name) == [NoSpan EXCEPT !.name = name]
\* fr.WithNewSpanContext(ctx, name, spanCtx)
WithNewSpanContext(name, spanCtx) ==
    [NoSpan EXCEPT !.name = name, !.parent = spanCtx]

\* tracer.Inject(span.Context(), TextMap, carrier): the tracer writes its
\* pairs through the carrier's Set, in order
TracerInject(md, writes) ==
    LET after[i \in 0..Len(writes)] ==
            IF i = 0 THEN md
            ELSE CarrierSet(after[i - 1], writes[i].key, writes[i].val)
    IN  after[Len(writes)]

\* the last value of TraceKey among the visited pairs
LastTraceValue(visited, hits) ==
    visited[CHOOSE i \in hits : \A j \in hits : i >= j].val

\* what the tracer makes of the pairs it was shown: r = ForeachKey's outcome,
\* hits = the visits of its own key
ExtractOutcome(r, hits) ==
    IF r.err # "nil" THEN [ctx |-> NoSpanCtx, err |-> "ErrSpanContextCorrupted"]
    ELSE IF hits = {} THEN [ctx |-> NoSpanCtx, err |-> "ErrSpanContextNotFound"]
    ELSE [ctx |-> [found |-> TRUE, id |-> LastTraceValue(r.visited, hits)],
          err |-> "nil"]

TraceHits(r) == {i \in 1..Len(r.visited) : r.visited[i].key = TraceKey}

ExtractFrom(r) == ExtractOutcome(r, TraceHits(r))

\* tracer.Extract(TextMap, carrier): the tracer reads the pairs through the
\* carrier's ForeachKey with a visitor that never fails
TracerExtract(md, order) == ExtractFrom(ForeachKey(md, order, 0))


(***************************************************************************)
(* projectTracker: counts is map[int32]*sampledCount, a function from the  *)
(* project ids present to their two counters.                              *)
(***************************************************************************)
\* maxBatchSize := 100
maxBatchSize == 100

\* &sampledCount{}
NoCount == [preSampling |-> 0, postSampling |-> 0]
\* make(map[int32]*sampledCount)
EmptyCounts == [p \in {} |-> NoCount]

\* the goroutines that call Track
Callers == {"t1", "t2"}
\* the goroutines that call flush: the one NewProjectTracker starts and the
\* caller of Close
Flushers == {"ticker", "close"}
NoArg == [projectId |-> 0, inSample |-> FALSE]
\* the metrics.Receiver's counters
NoMetrics == [numSentEvents |-> 0, success |-> 0, failures |-> 0]

VARIABLES
    call,       \* the interceptor in use: "none" until one is called
    pc,         \* "idle", "handler" (server stream handler running),
                \* "stream" (client stream open), "returned"
    span,       \* the span of the call and its tags
    doneLog,    \* one entry per invocation of the completion callback
    inner,      \* what the invoker / streamer / handler returned
    ret,        \* what the interceptor returned
    inCount,    \* the proxy's inCount
    outCount,   \* the proxy's outCount
    hist,       \* the operations performed on the proxy so far
    under,      \* the underlying stream: "open", "eof" or "failed"
    opRet,      \* the last proxy operation: its name and both results
    heap,       \* the metadata maps, by reference
    callerRef,  \* the reference in the caller's context, 0 when it has none
    wireRef,    \* the reference in the context given to the next layer
    callerBefore, \* the caller's metadata as it was when the call started
    injected,   \* the pairs the tracer wrote with Set
    log,        \* the flight recorder's Warn and Info events
    proxyCtx,   \* the context the server proxy holds, seen by Context()
    sPc, sTmp,  \* the concurrent sender: position and loaded counter
    rPc, rTmp, rErr, \* the concurrent receiver
    g,          \* the carrier under test
    g0,         \* the carrier as it was before the Set calls
    setLog,     \* the Set calls made on the carrier
    fe,         \* ForeachKey: whether it ran, the pairs in the order the
                \* range walked them, what the visitor saw, what it returned
    telErr,     \* what tracer.Inject (client) or tracer.Extract (server)
                \* returned as its error
    invoked,    \* how often the invoker, streamer or handler was invoked
    counts,     \* p.counts
    mutex,      \* p.mutex: "free" or the goroutine that holds it
    tPc, tArg,  \* each Track caller: "idle" or "locked", and its arguments
    fPc,        \* each flusher: "wait"/"idle", "lock", "swap", "send",
                \* "returned"
    taken,      \* each flusher's local counts, the map it swapped out
    rest,       \* the keys of it the range has not yielded yet, in order
    tick,       \* ticks waiting in p.ticker.C (capacity 1)
    stopped,    \* p.ticker.Stop() was called
    started,    \* Track calls started during the run
    ticks,      \* ticks delivered during the run
    batches,    \* the TrackBatched calls made: flush, events, error
    metrics,    \* the receiver's counters
    tracked,    \* per project, the Track calls that have returned
    flushes,    \* the flushes that swapped the map: by whom, which keys
    atClose     \* tracked as it was when Close was called

callVars == <<call, pc, span, doneLog, inner, ret, inCount, outCount, hist,
              under, opRet, log, proxyCtx>>
mdVars == <<heap, callerRef, wireRef, callerBefore, injected>>
concVars == <<sPc, sTmp, rPc, rTmp, rErr>>
carrierVars == <<g, g0, setLog, fe>>
invokeVars == <<telErr, invoked>>
trackerVars == <<counts, mutex, tPc, tArg, fPc, taken, rest, tick, stopped,
                 started, ticks, batches, metrics, tracked, flushes, atClose>>
vars == <<callVars, mdVars, concVars, carrierVars, invokeVars, trackerVars>>

NoHist == [send |-> 0, recvOk |-> 0, recvErr |-> 0, recvEOF |-> 0, other |-> 0]
NoOp == [op |-> "none", inner |-> Nil, ret |-> Nil]
NoFe == [ran |-> FALSE, pairs |-> <<>>, visited |-> <<>>, err |-> Nil,
         handlerErrAt |-> 0]
Refs == {1, 2}

Init ==
    /\ call = "none" /\ pc = "idle"
    /\ span = NoSpan /\ doneLog = <<>>
    /\ inner = NoResult /\ ret = NoResult
    /\ inCount = 0 /\ outCount = 0 /\ hist = NoHist
    /\ under = "open" /\ opRet = NoOp
    /\ heap = [r \in Refs |-> EmptyMD]
    /\ callerRef = 0 /\ wireRef = 0
    /\ callerBefore = EmptyMD /\ injected = <<>>
    /\ log = <<>> /\ proxyCtx = NoCtx
    /\ sPc = "idle" /\ sTmp = 0 /\ rPc = "idle" /\ rTmp = 0 /\ rErr = Nil
    /\ g = EmptyMD /\ g0 = EmptyMD /\ setLog = <<>> /\ fe = NoFe
    /\ telErr = Nil /\ invoked = 0
    /\ counts = EmptyCounts /\ mutex = "free"
    /\ tPc = [c \in Callers |-> "idle"] /\ tArg = [c \in Callers |-> NoArg]
    /\ fPc = [f \in Flushers |-> IF f = "ticker" THEN "wait" ELSE "idle"]
    /\ taken = [f \in Flushers |-> EmptyCounts]
    /\ rest = [f \in Flushers |-> <<>>]
    /\ tick = 0 /\ stopped = FALSE /\ started = 0 /\ ticks = 0
    /\ batches = <<>> /\ metrics = NoMetrics
    /\ tracked = EmptyCounts /\ flushes = <<>> /\ atClose = EmptyCounts


(***************************************************************************)
(* Inputs of the calls.                                                    *)
(***************************************************************************)
SeqsUpTo(S, n) == UNION {[1..m -> S] : m \in 0..n}

MDWith(k, vs) == [EmptyMD EXCEPT ![k] = vs]
\* metadata.FromContext(ctx): present = its ok result
NoMD == [present |-> FALSE, md |-> EmptyMD]
HasMD(md) == [present |-> TRUE, md |-> md]

\* what a client caller may have put in its outgoing context
ClientCallerMDs ==
    {NoMD, HasMD(EmptyMD),
     HasMD([EmptyMD EXCEPT ![TraceKey] = <<ValBang>>, ![PlainKey] = <<ValA>>])}
\* the pairs a tracer may write when it injects a span context
InjectPairs == {[key |-> k, val |-> ValA] : k \in {TraceKey, BinKey}}
InjectWrites == SeqsUpTo(InjectPairs, MaxSets)

\* what a server may find in its incoming context
ServerCallerMDs ==
    {NoMD, HasMD(EmptyMD), HasMD(MDWith(PlainKey, <<ValA>>)),
     HasMD(MDWith(TraceKey, <<ValAAAA>>)), HasMD(MDWith(BinKey, <<ValBang>>))}

(***************************************************************************)
(* The pieces of the interceptors.                                         *)
(***************************************************************************)
SpanName == "grpc:" \o Method

\* one invocation of the completion callback: what it sees
Done(dl, s, h) == Append(dl, [span |-> s, hist |-> h])

\* Logged that drops the event
LoggedNever(l, cond, level, event) == l

\* fs.Warn / fs.Info under the condition of the enclosing if
Logged(l, cond, level, event) ==
    IF cond THEN Append(l, [level |-> level, event |-> event]) ELSE l

\* ClientOutgoingMD without the Copy: md stays the caller's own map
ClientOutgoingMDAliased(h, cref) ==
    IF cref = 0 THEN [heap |-> [h EXCEPT ![2] = MDNew], ref |-> 2]
    ELSE [heap |-> h, ref |-> cref]

\* md, ok := metadata.FromContext(ctx); if !ok { md = metadata.New(nil) }
\* else { md = md.Copy() }: the heap after it and the reference md holds
ClientOutgoingMD(h, cref) ==
    IF cref = 0 THEN [heap |-> [h EXCEPT ![2] = MDNew], ref |-> 2]
    ELSE [heap |-> [h EXCEPT ![2] = MDCopy(h[cref])], ref |-> 2]

\* the metadata steps of both client interceptors: FromContext, New or Copy,
\* tracer.Inject through grpcTraceMD(md), metadata.NewContext(ctx, md)
ClientMetadata(cmd, writes) ==
    LET cref == IF cmd.present THEN 1 ELSE 0
        h0 == [heap EXCEPT ![1] = cmd.md]
        out == ClientOutgoingMD(h0, cref)
    IN  [heap |-> [out.heap EXCEPT ![out.ref] = TracerInject(@, writes)],
         callerRef |-> cref, wireRef |-> out.ref, before |-> cmd.md]

\* the error of tracer.Inject: failed = it returned one
InjectErr(failed) == IF failed THEN "ErrInject" ELSE Nil

\* ClientErrorTags without ext.Error.Set
ClientErrorTagsNone(s, err) == s

\* if err != nil { fs.Info(...); ext.Error.Set(span, true) }
ClientErrorTags(s, err) ==
    IF err # Nil THEN [s EXCEPT !.error = TRUE] ELSE s

\* if err != nil { fs.Info(...); ext.Error.Set(span, true);
\* span.SetTag(tracing.Label.ErrorMessage, fmt.Sprintf("%v", err)) }
ServerErrorTags(s, err) ==
    IF err # Nil
    THEN [s EXCEPT !.error = TRUE, !.errorMessage = Render(err)]
    ELSE s

\* ServerSpan with the warning logged for every extraction error, the
\* "not found" outcome included
ServerSpanWarnAlways(ex, l) ==
    [span |-> [WithNewSpanContext(SpanName, ex.ctx) EXCEPT
                  !.kind = "server", !.hostname = traceHostname],
     extractErr |-> ex.err,
     log |-> Logged(l, ex.err # Nil, "warn", "tracer_extract")]

\* the span of both server interceptors and the warning: ex = what
\* tracer.Extract returned
ServerSpan(ex, l) ==
    [span |-> [WithNewSpanContext(SpanName, ex.ctx) EXCEPT
                  !.kind = "server", !.hostname = traceHostname],
     extractErr |-> ex.err,
     log |-> Logged(l, ex.err # Nil /\ ex.err # "ErrSpanContextNotFound",
                    "warn", "tracer_extract")]

\* the start of both server interceptors: FromContext or New, tracer.Extract,
\* WithNewSpanContext, the kind and hostname tags, the warning
ServerStart(smd, order) ==
    ServerSpan(TracerExtract(IF smd.present THEN smd.md ELSE MDNew, order), log)

Ops(h) == h.send + h.recvOk + h.recvErr + h.recvEOF + h.other

\* what the underlying stream's RecvMsg may return
RecvResults == IF under = "open" THEN {Nil, EOF} \cup StreamErrors
               ELSE {EOF} \cup StreamErrors
UnderAfter(res) == IF res = Nil THEN under ELSE IF res = EOF THEN "eof" ELSE "failed"
HistAfterRecv(res) ==
    IF res = Nil THEN [hist EXCEPT !.recvOk = @ + 1]
    ELSE IF res = EOF THEN [hist EXCEPT !.recvEOF = @ + 1]
    ELSE [hist EXCEPT !.recvErr = @ + 1]

(***************************************************************************)
(* tracingUnaryClientInterceptor                                           *)
(***************************************************************************)
UnaryClient ==
    \E cmd \in ClientCallerMDs, writes \in InjectWrites, injErr \in BOOLEAN,
       err \in {Nil} \cup CallErrors, reply \in Responses :
        /\ call = "none"
        /\ LET m == ClientMetadata(cmd, writes)
               s == ClientErrorTags([WithNewSpan(SpanName) EXCEPT !.kind = "client"], err)
           IN  /\ heap' = m.heap /\ callerRef' = m.callerRef
               /\ wireRef' = m.wireRef /\ callerBefore' = m.before
               /\ injected' = writes
               /\ span' = s
               /\ doneLog' = Done(doneLog, s, hist)
        /\ log' = Logged(Logged(log, injErr, "warn", "tracer_inject"),
                         err # Nil, "info", "error in gRPC")
        /\ telErr' = InjectErr(injErr) /\ invoked' = invoked + 1
        /\ inner' = [err |-> err, resp |-> Plain(reply)]
        /\ ret' = [err |-> IF err # Nil THEN err ELSE Nil, resp |-> Plain(reply)]
        /\ call' = "unaryClient" /\ pc' = "returned"
        /\ UNCHANGED <<inCount, outCount, hist, under, opRet, proxyCtx>>
        /\ UNCHANGED <<concVars, carrierVars, trackerVars>>

(***************************************************************************)
(* tracingStreamClientInterceptor and clientStreamInterceptor              *)
(***************************************************************************)
StreamClientOpen ==
    \E cmd \in ClientCallerMDs, writes \in InjectWrites, injErr \in BOOLEAN,
       err \in {Nil} \cup CallErrors :
        /\ call = "none"
        /\ LET m == ClientMetadata(cmd, writes)
               cs == IF err = Nil THEN "stream-1" ELSE "nil-stream"
           IN  /\ heap' = m.heap /\ callerRef' = m.callerRef
               /\ wireRef' = m.wireRef /\ callerBefore' = m.before
               /\ injected' = writes
               /\ inner' = [err |-> err, resp |-> Plain(cs)]
               /\ ret' = [err |-> err, resp |-> [proxy |-> TRUE, val |-> cs]]
        /\ span' = ClientErrorTags([WithNewSpan(SpanName) EXCEPT !.kind = "client"], err)
        /\ log' = Logged(Logged(log, injErr, "warn", "tracer_inject"),
                         err # Nil, "info", "error in gRPC")
        /\ telErr' = InjectErr(injErr) /\ invoked' = invoked + 1
        /\ call' = "streamClient"
        /\ pc' = IF err = Nil THEN "stream" ELSE "returned"
        /\ UNCHANGED <<doneLog, inCount, outCount, hist, under, opRet, proxyCtx>>
        /\ UNCHANGED <<concVars, carrierVars, trackerVars>>

ClientProxyLive == call = "streamClient" /\ pc = "stream" /\ Ops(hist) < MaxOps

\* csi.outCount++; return csi.cs.SendMsg(m)
ClientSendMsg ==
    \E res \in {Nil, EOF} \cup StreamErrors :
        /\ ClientProxyLive
        /\ outCount' = outCount + 1
        /\ hist' = [hist EXCEPT !.send = @ + 1]
        /\ opRet' = [op |-> "SendMsg", inner |-> res, ret |-> res]
        /\ UNCHANGED <<call, pc, span, doneLog, inner, ret, inCount, under, log, proxyCtx>>
        /\ UNCHANGED <<mdVars, concVars, carrierVars, invokeVars, trackerVars>>

\* ClientRecvEffect that tags and finalizes on every error, not only io.EOF
ClientRecvEffectAnyError(res, s, in, out, dl, h) ==
    IF res # Nil
    THEN LET t == [s EXCEPT !.received = in, !.sent = out]
         IN  [span |-> t, inCount |-> in, doneLog |-> Done(dl, t, h)]
    ELSE [span |-> s, inCount |-> in + 1, doneLog |-> dl]

\* ClientRecvEffect with done() called before the two count tags are set
ClientRecvEffectDoneFirst(res, s, in, out, dl, h) ==
    IF res = EOF
    THEN [span |-> [s EXCEPT !.received = in, !.sent = out], inCount |-> in,
          doneLog |-> Done(dl, s, h)]
    ELSE [span |-> s, inCount |-> in + 1, doneLog |-> dl]

\* the effect of RecvMsg on the proxy when the underlying stream returned res
ClientRecvEffect(res, s, in, out, dl, h) ==
    IF res = EOF
    THEN LET t == [s EXCEPT !.received = in, !.sent = out]
         IN  [span |-> t, inCount |-> in, doneLog |-> Done(dl, t, h)]
    ELSE [span |-> s, inCount |-> in + 1, doneLog |-> dl]

ClientRecvMsg ==
    \E res \in RecvResults :
        /\ ClientProxyLive
        /\ hist' = HistAfterRecv(res)
        /\ LET e == ClientRecvEffect(res, span, inCount, outCount, doneLog, hist')
           IN  span' = e.span /\ inCount' = e.inCount /\ doneLog' = e.doneLog
        /\ under' = UnderAfter(res)
        /\ opRet' = [op |-> "RecvMsg", inner |-> res, ret |-> res]
        /\ UNCHANGED <<call, pc, inner, ret, outCount, log, proxyCtx>>
        /\ UNCHANGED <<mdVars, concVars, carrierVars, invokeVars, trackerVars>>

\* Header, Trailer, CloseSend, Context: return csi.cs.<op>()
ForwardResults(op) ==
    IF op = "Context" THEN {StreamCtx}
    ELSE IF op = "Trailer" THEN {"trailer-md"}
    ELSE {Nil} \cup StreamErrors

ClientForward ==
    \E op \in {"Header", "Trailer", "CloseSend", "Context"} :
      \E res \in ForwardResults(op) :
        /\ ClientProxyLive
        /\ hist' = [hist EXCEPT !.other = @ + 1]
        /\ opRet' = [op |-> op, inner |-> res, ret |-> res]
        /\ UNCHANGED <<call, pc, span, doneLog, inner, ret, inCount, outCount,
                       under, log, proxyCtx>>
        /\ UNCHANGED <<mdVars, concVars, carrierVars, invokeVars, trackerVars>>


(***************************************************************************)
(* tracingUnaryServerInterceptor                                           *)
(***************************************************************************)
UnaryServer ==
    \E smd \in ServerCallerMDs, order \in KeyOrders,
       err \in {Nil} \cup CallErrors, resp \in Responses :
        /\ call = "none"
        /\ \E st \in {ServerStart(smd, order)} :
             \E s \in {ServerErrorTags(st.span, err)} :
               /\ span' = s
               /\ doneLog' = Done(doneLog, s, hist)
               /\ log' = Logged(st.log, err # Nil, "info", "error in gRPC")
               /\ telErr' = st.extractErr /\ invoked' = invoked + 1
        /\ heap' = [heap EXCEPT ![1] = smd.md]
        /\ callerRef' = (IF smd.present THEN 1 ELSE 0)
        /\ callerBefore' = smd.md
        /\ inner' = [err |-> err, resp |-> Plain(resp)]
        /\ ret' = [err |-> IF err # Nil THEN err ELSE Nil, resp |-> Plain(resp)]
        /\ call' = "unaryServer" /\ pc' = "returned"
        /\ UNCHANGED <<inCount, outCount, hist, under, opRet, proxyCtx,
                       wireRef, injected>>
        /\ UNCHANGED <<concVars, carrierVars, trackerVars>>

(***************************************************************************)
(* tracingStreamServerInterceptor and serverStreamInterceptor              *)
(***************************************************************************)
\* up to "defer ssi.finish()": the handler is about to run
StreamServerStart ==
    \E smd \in ServerCallerMDs, order \in KeyOrders :
        /\ call = "none"
        /\ \E st \in {ServerStart(smd, order)} :
               /\ span' = st.span /\ log' = st.log
               /\ telErr' = st.extractErr /\ invoked' = invoked + 1
        /\ heap' = [heap EXCEPT ![1] = smd.md]
        /\ callerRef' = (IF smd.present THEN 1 ELSE 0)
        /\ callerBefore' = smd.md
        /\ proxyCtx' = ContextWithSpan(StreamCtx, SpanName)
        /\ call' = "streamServer" /\ pc' = "handler"
        /\ UNCHANGED <<doneLog, inner, ret, inCount, outCount, hist, under,
                       opRet, wireRef, injected>>
        /\ UNCHANGED <<concVars, carrierVars, trackerVars>>

ServerProxyLive == call = "streamServer" /\ pc = "handler" /\ Ops(hist) < MaxOps

\* ssi.outCount++; return ssi.ss.SendMsg(m)
ServerSendMsg ==
    \E res \in {Nil} \cup StreamErrors :
        /\ ServerProxyLive
        /\ outCount' = outCount + 1
        /\ hist' = [hist EXCEPT !.send = @ + 1]
        /\ opRet' = [op |-> "SendMsg", inner |-> res, ret |-> res]
        /\ UNCHANGED <<call, pc, span, doneLog, inner, ret, inCount, under, log, proxyCtx>>
        /\ UNCHANGED <<mdVars, concVars, carrierVars, invokeVars, trackerVars>>

\* the proxy's inCount after a RecvMsg whose underlying call returned res
ServerRecvCount(res, in) == in + 1

\* ssi.inCount++; return ssi.ss.RecvMsg(m)
ServerRecvMsg ==
    \E res \in RecvResults :
        /\ ServerProxyLive
        /\ inCount' = ServerRecvCount(res, inCount)
        /\ hist' = HistAfterRecv(res)
        /\ under' = UnderAfter(res)
        /\ opRet' = [op |-> "RecvMsg", inner |-> res, ret |-> res]
        /\ UNCHANGED <<call, pc, span, doneLog, inner, ret, outCount, log, proxyCtx>>
        /\ UNCHANGED <<mdVars, concVars, carrierVars, invokeVars, trackerVars>>

\* SendHeader, SetTrailer: forwarded to ssi.ss; Context: return ssi.ctx
ServerForward ==
    \E op \in {"SendHeader", "SetTrailer", "Context"} :
      \E res \in (IF op = "SendHeader" THEN {Nil} \cup StreamErrors
                  ELSE IF op = "SetTrailer" THEN {"none"} ELSE {StreamCtx}) :
        /\ ServerProxyLive
        /\ hist' = [hist EXCEPT !.other = @ + 1]
        /\ opRet' = [op |-> op, inner |-> res,
                     ret |-> IF op = "Context" THEN proxyCtx ELSE res]
        /\ UNCHANGED <<call, pc, span, doneLog, inner, ret, inCount, outCount,
                       under, log, proxyCtx>>
        /\ UNCHANGED <<mdVars, concVars, carrierVars, invokeVars, trackerVars>>

\* finish with done() called before the two count tags are set
ServerFinishDoneFirst(s, in, out, dl, h) ==
    [span |-> [s EXCEPT !.received = in, !.sent = out], doneLog |-> Done(dl, s, h)]

\* ssi.finish(): the two count tags, then done()
ServerFinish(s, in, out, dl, h) ==
    LET t == [s EXCEPT !.received = in, !.sent = out]
    IN  [span |-> t, doneLog |-> Done(dl, t, h)]

\* the handler returns err; the error tags; the deferred ssi.finish() runs
StreamServerReturn ==
    \E err \in {Nil} \cup CallErrors :
        /\ call = "streamServer" /\ pc = "handler"
        /\ LET f == ServerFinish(ServerErrorTags(span, err), inCount, outCount,
                                 doneLog, hist)
           IN  span' = f.span /\ doneLog' = f.doneLog
        /\ log' = Logged(log, err # Nil, "info", "error in gRPC")
        /\ inner' = [err |-> err, resp |-> Plain("none")]
        /\ ret' = [err |-> IF err # Nil THEN err ELSE Nil, resp |-> Plain("none")]
        /\ pc' = "returned"
        /\ UNCHANGED <<call, inCount, outCount, hist, under, opRet, proxyCtx>>
        /\ UNCHANGED <<mdVars, concVars, carrierVars, invokeVars, trackerVars>>

Next ==
    \/ UnaryClient
    \/ StreamClientOpen
    \/ ClientSendMsg
    \/ ClientRecvMsg
    \/ ClientForward
    \/ UnaryServer
    \/ StreamServerStart
    \/ ServerSendMsg
    \/ ServerRecvMsg
    \/ ServerForward
    \/ StreamServerReturn

Spec == Init /\ [][Next]_vars


(***************************************************************************)
(* One sender and one receiver on the same client stream proxy.  The plain *)
(* csi.outCount++ and csi.inCount++ are a load and a store; the steps of   *)
(* the two goroutines interleave.                                          *)
(***************************************************************************)
\* the state tracingStreamClientInterceptor leaves when the streamer opened
\* the stream: a caller without metadata, a tracer that wrote nothing
InitConc ==
    /\ call = "streamClient" /\ pc = "stream"
    /\ span = [WithNewSpan(SpanName) EXCEPT !.kind = "client"]
    /\ doneLog = <<>>
    /\ inner = [err |-> Nil, resp |-> Plain("stream-1")]
    /\ ret = [err |-> Nil, resp |-> [proxy |-> TRUE, val |-> "stream-1"]]
    /\ inCount = 0 /\ outCount = 0 /\ hist = NoHist
    /\ under = "open" /\ opRet = NoOp
    /\ heap = [r \in Refs |-> EmptyMD]
    /\ callerRef = 0 /\ wireRef = 2
    /\ callerBefore = EmptyMD /\ injected = <<>>
    /\ log = <<>> /\ proxyCtx = NoCtx
    /\ sPc = "idle" /\ sTmp = 0 /\ rPc = "idle" /\ rTmp = 0 /\ rErr = Nil
    /\ g = EmptyMD /\ g0 = EmptyMD /\ setLog = <<>> /\ fe = NoFe
    /\ telErr = Nil /\ invoked = 1
    /\ counts = EmptyCounts /\ mutex = "free"
    /\ tPc = [c \in Callers |-> "idle"] /\ tArg = [c \in Callers |-> NoArg]
    /\ fPc = [f \in Flushers |-> IF f = "ticker" THEN "wait" ELSE "idle"]
    /\ taken = [f \in Flushers |-> EmptyCounts]
    /\ rest = [f \in Flushers |-> <<>>]
    /\ tick = 0 /\ stopped = FALSE /\ started = 0 /\ ticks = 0
    /\ batches = <<>> /\ metrics = NoMetrics
    /\ tracked = EmptyCounts /\ flushes = <<>> /\ atClose = EmptyCounts

\* SendMsg is entered: the load of csi.outCount++
ConcSendLoad ==
    /\ sPc = "idle" /\ hist.send < MaxSends
    /\ sTmp' = outCount
    /\ hist' = [hist EXCEPT !.send = @ + 1]
    /\ sPc' = "loaded"
    /\ UNCHANGED <<call, pc, span, doneLog, inner, ret, inCount, outCount,
                   under, opRet, log, proxyCtx, rPc, rTmp, rErr>>
    /\ UNCHANGED <<mdVars, carrierVars, invokeVars, trackerVars>>

\* the store of csi.outCount++
ConcSendStore ==
    /\ sPc = "loaded"
    /\ outCount' = sTmp + 1
    /\ sPc' = "stored"
    /\ UNCHANGED <<call, pc, span, doneLog, inner, ret, inCount, hist,
                   under, opRet, log, proxyCtx, sTmp, rPc, rTmp, rErr>>
    /\ UNCHANGED <<mdVars, carrierVars, invokeVars, trackerVars>>

\* return csi.cs.SendMsg(m)
ConcSendReturn ==
    \E res \in {Nil, EOF} \cup StreamErrors :
        /\ sPc = "stored"
        /\ opRet' = [op |-> "SendMsg", inner |-> res, ret |-> res]
        /\ sPc' = "idle"
        /\ UNCHANGED <<call, pc, span, doneLog, inner, ret, inCount, outCount,
                       hist, under, log, proxyCtx, sTmp, rPc, rTmp, rErr>>
        /\ UNCHANGED <<mdVars, carrierVars, invokeVars, trackerVars>>

\* err := csi.cs.RecvMsg(m)
ConcRecvCall ==
    \E res \in RecvResults :
        /\ rPc = "idle"
        /\ hist.recvOk + hist.recvErr + hist.recvEOF < MaxRecvs
        /\ rErr' = res
        /\ hist' = HistAfterRecv(res)
        /\ under' = UnderAfter(res)
        /\ rPc' = IF res = EOF THEN "tagReceived" ELSE "load"
        /\ UNCHANGED <<call, pc, span, doneLog, inner, ret, inCount, outCount,
                       opRet, log, proxyCtx, sPc, sTmp, rTmp>>
        /\ UNCHANGED <<mdVars, carrierVars, invokeVars, trackerVars>>

\* csi.span.SetTag("grpc.stream_received", csi.inCount)
ConcRecvTagReceived ==
    /\ rPc = "tagReceived"
    /\ span' = [span EXCEPT !.received = inCount]
    /\ rPc' = "tagSent"
    /\ UNCHANGED <<call, pc, doneLog, inner, ret, inCount, outCount, hist,
                   under, opRet, log, proxyCtx, sPc, sTmp, rTmp, rErr>>
    /\ UNCHANGED <<mdVars, carrierVars, invokeVars, trackerVars>>

\* csi.span.SetTag("grpc.stream_sent", csi.outCount)
ConcRecvTagSent ==
    /\ rPc = "tagSent"
    /\ span' = [span EXCEPT !.sent = outCount]
    /\ rPc' = "done"
    /\ UNCHANGED <<call, pc, doneLog, inner, ret, inCount, outCount, hist,
                   under, opRet, log, proxyCtx, sPc, sTmp, rTmp, rErr>>
    /\ UNCHANGED <<mdVars, carrierVars, invokeVars, trackerVars>>

\* csi.done(); return err
ConcRecvDone ==
    /\ rPc = "done"
    /\ doneLog' = Done(doneLog, span, hist)
    /\ opRet' = [op |-> "RecvMsg", inner |-> rErr, ret |-> rErr]
    /\ rPc' = "idle"
    /\ UNCHANGED <<call, pc, span, inner, ret, inCount, outCount, hist,
                   under, log, proxyCtx, sPc, sTmp, rTmp, rErr>>
    /\ UNCHANGED <<mdVars, carrierVars, invokeVars, trackerVars>>

\* the load of csi.inCount++
ConcRecvLoad ==
    /\ rPc = "load"
    /\ rTmp' = inCount
    /\ rPc' = "store"
    /\ UNCHANGED <<call, pc, span, doneLog, inner, ret, inCount, outCount, hist,
                   under, opRet, log, proxyCtx, sPc, sTmp, rErr>>
    /\ UNCHANGED <<mdVars, carrierVars, invokeVars, trackerVars>>

\* the store of csi.inCount++; return err
ConcRecvStore ==
    /\ rPc = "store"
    /\ inCount' = rTmp + 1
    /\ opRet' = [op |-> "RecvMsg", inner |-> rErr, ret |-> rErr]
    /\ rPc' = "idle"
    /\ UNCHANGED <<call, pc, span, doneLog, inner, ret, outCount, hist,
                   under, log, proxyCtx, sPc, sTmp, rTmp, rErr>>
    /\ UNCHANGED <<mdVars, carrierVars, invokeVars, trackerVars>>

NextConc ==
    \/ ConcSendLoad
    \/ ConcSendStore
    \/ ConcSendReturn
    \/ ConcRecvCall
    \/ ConcRecvTagReceived
    \/ ConcRecvTagSent
    \/ ConcRecvDone
    \/ ConcRecvLoad
    \/ ConcRecvStore

SpecConc == InitConc /\ [][NextConc]_vars

(***************************************************************************)
(* The carrier on its own: Set calls, then one ForeachKey.                 *)
(***************************************************************************)
\* the metadata a carrier may wrap before anything is Set on it
CarrierInitMDs ==
    {EmptyMD, MDWith(TraceKey, <<ValBang>>), MDWith(BinKey, <<ValAAAA>>),
     MDWith(BinKey, <<ValQQbad>>),
     [EmptyMD EXCEPT ![PlainKey] = <<ValA, ValA>>, ![BinKey] = <<ValQQpad>>]}

InitCarrier ==
    /\ call = "none" /\ pc = "idle"
    /\ span = NoSpan /\ doneLog = <<>>
    /\ inner = NoResult /\ ret = NoResult
    /\ inCount = 0 /\ outCount = 0 /\ hist = NoHist
    /\ under = "open" /\ opRet = NoOp
    /\ heap = [r \in Refs |-> EmptyMD]
    /\ callerRef = 0 /\ wireRef = 0
    /\ callerBefore = EmptyMD /\ injected = <<>>
    /\ log = <<>> /\ proxyCtx = NoCtx
    /\ sPc = "idle" /\ sTmp = 0 /\ rPc = "idle" /\ rTmp = 0 /\ rErr = Nil
    /\ g \in CarrierInitMDs /\ g0 = g /\ setLog = <<>> /\ fe = NoFe
    /\ telErr = Nil /\ invoked = 0
    /\ counts = EmptyCounts /\ mutex = "free"
    /\ tPc = [c \in Callers |-> "idle"] /\ tArg = [c \in Callers |-> NoArg]
    /\ fPc = [f \in Flushers |-> IF f = "ticker" THEN "wait" ELSE "idle"]
    /\ taken = [f \in Flushers |-> EmptyCounts]
    /\ rest = [f \in Flushers |-> <<>>]
    /\ tick = 0 /\ stopped = FALSE /\ started = 0 /\ ticks = 0
    /\ batches = <<>> /\ metrics = NoMetrics
    /\ tracked = EmptyCounts /\ flushes = <<>> /\ atClose = EmptyCounts

\* g.Set(key, val)
CarrierDoSet ==
    \E k \in Keys, v \in Values :
        /\ ~fe.ran /\ Len(setLog) < MaxCarrierSets
        /\ g' = CarrierSet(g, k, v)
        /\ setLog' = Append(setLog, [key |-> k, val |-> v])
        /\ UNCHANGED <<g0, fe>>
        /\ UNCHANGED <<callVars, mdVars, concVars, invokeVars, trackerVars>>

\* g.ForeachKey(handler)
CarrierDoForeachKey ==
    \E order \in KeyOrders, n \in 0..MaxVisitorErrAt :
        /\ ~fe.ran
        /\ \E r \in {ForeachKey(g, order, n)} :
             fe' = [ran |-> TRUE, pairs |-> PairsInOrder(g, order),
                    visited |-> r.visited, err |-> r.err, handlerErrAt |-> n]
        /\ UNCHANGED <<g, g0, setLog>>
        /\ UNCHANGED <<callVars, mdVars, concVars, invokeVars, trackerVars>>

NextCarrier ==
    \/ CarrierDoSet
    \/ CarrierDoForeachKey

SpecCarrier == InitCarrier /\ [][NextCarrier]_vars


(***************************************************************************)
(* projectTracker: Track callers, the goroutine that flushes on every      *)
(* tick, and one caller of Close.                                          *)
(***************************************************************************)
\* the project ids a Track call of the run names
TrackProjects == {1, PreTracked + 1}
AllProjects == 1..(PreTracked + 1)

\* the tracker after Track was called for the projects 1..n
PreCounts(n) ==
    [p \in 1..n |-> [preSampling |-> 1 + (p % 2), postSampling |-> p % 2]]

\* the body of Track: the entry is created when missing, then counted
TrackCount(c, projectId, inSample) ==
    LET old == IF projectId \in DOMAIN c THEN c[projectId] ELSE NoCount
    IN  [q \in (DOMAIN c) \cup {projectId} |->
            IF q = projectId
            THEN [preSampling |-> old.preSampling + 1,
                  postSampling |-> old.postSampling + (IF inSample THEN 1 ELSE 0)]
            ELSE c[q]]

\* flush that leaves p.counts as it was
NewCountsKept(old) == old

\* p.counts = make(map[int32]*sampledCount, len(counts))
NewCounts(old) == EmptyCounts

\* two of the orders in which "range counts" may yield the keys: ascending
\* and descending
Ascending(S) == SelectSeq([i \in AllProjects |-> i], LAMBDA x : x \in S)
Descending(S) ==
    SelectSeq([i \in AllProjects |-> PreTracked + 2 - i], LAMBDA x : x \in S)
RangeOrders(S) == {Ascending(S), Descending(S)}

\* the loop without "if len(events) == maxBatchSize": one batch of everything
TakeBatchAll(keys) == keys

\* the keys of the next batch: the loop sends when len(events) ==
\* maxBatchSize, and what is left after the loop
TakeBatch(keys) ==
    IF Len(keys) > maxBatchSize THEN SubSeq(keys, 1, maxBatchSize) ELSE keys

\* &mixpanel.TrackedEvent{..., Properties: {...}}
TrackedEvent(projectId, count) ==
    [project_id |-> projectId, count |-> count.preSampling,
     pre_sampling |-> count.preSampling, post_sampling |-> count.postSampling]

\* the receiver's counters after send(events) with TrackBatched returning err
Sent(m, n, err) ==
    [numSentEvents |-> m.numSentEvents + n,
     success |-> m.success + (IF err = Nil THEN 1 ELSE 0),
     failures |-> m.failures + (IF err = Nil THEN 0 ELSE 1)]

\* the flush a flusher is in: its latest entry in flushes
FlushOf(f) ==
    CHOOSE i \in 1..Len(flushes) :
        /\ flushes[i].by = f
        /\ \A j \in (i + 1)..Len(flushes) : flushes[j].by # f

\* where a flusher is when flush has returned
FlushDone(f) == IF f = "ticker" THEN "wait" ELSE "returned"

\* NewProjectTracker has returned
InitTracker ==
    /\ call = "none" /\ pc = "idle"
    /\ span = NoSpan /\ doneLog = <<>>
    /\ inner = NoResult /\ ret = NoResult
    /\ inCount = 0 /\ outCount = 0 /\ hist = NoHist
    /\ under = "open" /\ opRet = NoOp
    /\ heap = [r \in Refs |-> EmptyMD]
    /\ callerRef = 0 /\ wireRef = 0
    /\ callerBefore = EmptyMD /\ injected = <<>>
    /\ log = <<>> /\ proxyCtx = NoCtx
    /\ sPc = "idle" /\ sTmp = 0 /\ rPc = "idle" /\ rTmp = 0 /\ rErr = Nil
    /\ g = EmptyMD /\ g0 = EmptyMD /\ setLog = <<>> /\ fe = NoFe
    /\ telErr = Nil /\ invoked = 0
    /\ counts = EmptyCounts /\ tracked = EmptyCounts
    /\ mutex = "free"
    /\ tPc = [c \in Callers |-> "idle"] /\ tArg = [c \in Callers |-> NoArg]
    /\ fPc = [f \in Flushers |-> IF f = "ticker" THEN "wait" ELSE "idle"]
    /\ taken = [f \in Flushers |-> EmptyCounts]
    /\ rest = [f \in Flushers |-> <<>>]
    /\ tick = 0 /\ stopped = FALSE /\ started = 0 /\ ticks = 0
    /\ batches = <<>> /\ metrics = NoMetrics
    /\ flushes = <<>> /\ atClose = EmptyCounts

otherVars == <<callVars, mdVars, concVars, carrierVars, invokeVars>>

\* Track is called and p.mutex.Lock() returns
TrackLock(c) ==
    \E projectId \in TrackProjects, inSample \in BOOLEAN :
        /\ tPc[c] = "idle" /\ started < MaxTracks
        /\ mutex = "free"
        /\ mutex' = c
        /\ tPc' = [tPc EXCEPT ![c] = "locked"]
        /\ tArg' = [tArg EXCEPT ![c] = [projectId |-> projectId, inSample |-> inSample]]
        /\ started' = started + 1
        /\ UNCHANGED <<counts, fPc, taken, rest, tick, stopped, ticks, batches,
                       metrics, tracked, flushes, atClose>>
        /\ UNCHANGED otherVars

\* the body of Track, the deferred p.mutex.Unlock(), the return
TrackReturn(c) ==
    /\ tPc[c] = "locked"
    /\ counts' = TrackCount(counts, tArg[c].projectId, tArg[c].inSample)
    /\ tracked' =
          [q \in (DOMAIN tracked) \cup {tArg[c].projectId} |->
              LET was == IF q \in DOMAIN tracked THEN tracked[q] ELSE NoCount
              IN  IF q # tArg[c].projectId THEN was
                  ELSE [preSampling |-> was.preSampling + 1,
                        postSampling |-> was.postSampling +
                                         (IF tArg[c].inSample THEN 1 ELSE 0)]]
    /\ mutex' = "free"
    /\ tPc' = [tPc EXCEPT ![c] = "idle"]
    /\ tArg' = [tArg EXCEPT ![c] = NoArg]
    /\ UNCHANGED <<fPc, taken, rest, tick, stopped, started, ticks, batches,
                   metrics, flushes, atClose>>
    /\ UNCHANGED otherVars

\* the ticker puts a tick into p.ticker.C; a tick that finds the channel
\* full is dropped
TickerFire ==
    /\ ~stopped /\ ticks < MaxTicks /\ tick = 0
    /\ tick' = 1
    /\ ticks' = ticks + 1
    /\ UNCHANGED <<counts, mutex, tPc, tArg, fPc, taken, rest, stopped, started,
                   batches, metrics, tracked, flushes, atClose>>
    /\ UNCHANGED otherVars

\* case _, ok := <-p.ticker.C with ok true: the channel is never closed
TickerReceive ==
    /\ fPc["ticker"] = "wait" /\ tick = 1
    /\ tick' = 0
    /\ fPc' = [fPc EXCEPT !["ticker"] = "lock"]
    /\ UNCHANGED <<counts, mutex, tPc, tArg, taken, rest, stopped, started,
                   ticks, batches, metrics, tracked, flushes, atClose>>
    /\ UNCHANGED otherVars

\* Close is called: p.ticker.Stop()
CloseStop ==
    /\ fPc["close"] = "idle"
    /\ stopped' = TRUE
    /\ atClose' = tracked
    /\ fPc' = [fPc EXCEPT !["close"] = "lock"]
    /\ UNCHANGED <<counts, mutex, tPc, tArg, taken, rest, tick, started, ticks,
                   batches, metrics, tracked, flushes>>
    /\ UNCHANGED otherVars

\* flush: p.mutex.Lock() returns
FlushLock(f) ==
    /\ fPc[f] = "lock" /\ mutex = "free"
    /\ mutex' = f
    /\ fPc' = [fPc EXCEPT ![f] = "swap"]
    /\ UNCHANGED <<counts, tPc, tArg, taken, rest, tick, stopped, started,
                   ticks, batches, metrics, tracked, flushes, atClose>>
    /\ UNCHANGED otherVars

\* counts := p.counts; p.counts = make(...); p.mutex.Unlock();
\* if len(counts) == 0 { return }; the range begins
FlushSwap(f) ==
    \E order \in RangeOrders(DOMAIN counts) :
        /\ fPc[f] = "swap"
        /\ taken' = [taken EXCEPT ![f] = counts]
        /\ counts' = NewCounts(counts)
        /\ mutex' = "free"
        /\ rest' = [rest EXCEPT ![f] = order]
        /\ flushes' = Append(flushes,
                             [by |-> f, keys |-> DOMAIN counts,
                              afterClose |-> fPc["close"] = "returned"])
        /\ fPc' = [fPc EXCEPT ![f] = IF order = <<>> THEN FlushDone(f) ELSE "send"]
        /\ UNCHANGED <<tPc, tArg, tick, stopped, started, ticks, batches,
                       metrics, tracked, atClose>>
        /\ UNCHANGED otherVars

\* the range up to the next p.send(events), in the loop or after it; flush
\* returns when nothing is left
FlushSend(f) ==
    \E err \in {Nil, "ErrMixpanel"} :
        /\ fPc[f] = "send"
        /\ \E keys \in {TakeBatch(rest[f])} :
             /\ batches' = Append(batches,
                    [flush |-> FlushOf(f), by |-> f, err |-> err,
                     events |-> [i \in 1..Len(keys) |->
                                    TrackedEvent(keys[i], taken[f][keys[i]])]])
             /\ metrics' = Sent(metrics, Len(keys), err)
             /\ rest' = [rest EXCEPT ![f] = SubSeq(@, Len(keys) + 1, Len(@))]
             /\ fPc' = [fPc EXCEPT ![f] = IF Len(keys) = Len(rest[f])
                                           THEN FlushDone(f) ELSE "send"]
             /\ taken' = [taken EXCEPT ![f] = IF Len(keys) = Len(rest[f])
                                               THEN EmptyCounts ELSE @]
        /\ UNCHANGED <<counts, mutex, tPc, tArg, tick, stopped, started, ticks,
                       tracked, flushes, atClose>>
        /\ UNCHANGED otherVars

NextTracker ==
    \/ \E c \in Callers : TrackLock(c)
    \/ \E c \in Callers : TrackReturn(c)
    \/ TickerFire
    \/ TickerReceive
    \/ CloseStop
    \/ \E f \in Flushers : FlushLock(f)
    \/ \E f \in Flushers : FlushSwap(f)
    \/ \E f \in Flushers : FlushSend(f)

SpecTracker == InitTracker /\ [][NextTracker]_vars

(***************************************************************************)
(* projectTracker: the flushes of a tracker that holds many projects, with *)
(* no Track call under way.                                                *)
(***************************************************************************)
\* NewProjectTracker has returned, Track has been called for no project, for
\* maxBatchSize projects or for PreTracked projects, and nothing was flushed
InitFlush ==
    /\ call = "none" /\ pc = "idle"
    /\ span = NoSpan /\ doneLog = <<>>
    /\ inner = NoResult /\ ret = NoResult
    /\ inCount = 0 /\ outCount = 0 /\ hist = NoHist
    /\ under = "open" /\ opRet = NoOp
    /\ heap = [r \in Refs |-> EmptyMD]
    /\ callerRef = 0 /\ wireRef = 0
    /\ callerBefore = EmptyMD /\ injected = <<>>
    /\ log = <<>> /\ proxyCtx = NoCtx
    /\ sPc = "idle" /\ sTmp = 0 /\ rPc = "idle" /\ rTmp = 0 /\ rErr = Nil
    /\ g = EmptyMD /\ g0 = EmptyMD /\ setLog = <<>> /\ fe = NoFe
    /\ telErr = Nil /\ invoked = 0
    /\ \E n \in {0, maxBatchSize, PreTracked} :
           counts = PreCounts(n) /\ tracked = PreCounts(n)
    /\ mutex = "free"
    /\ tPc = [c \in Callers |-> "idle"] /\ tArg = [c \in Callers |-> NoArg]
    /\ fPc = [f \in Flushers |-> IF f = "ticker" THEN "wait" ELSE "idle"]
    /\ taken = [f \in Flushers |-> EmptyCounts]
    /\ rest = [f \in Flushers |-> <<>>]
    /\ tick = 0 /\ stopped = FALSE /\ started = 0 /\ ticks = 0
    /\ batches = <<>> /\ metrics = NoMetrics
    /\ flushes = <<>> /\ atClose = EmptyCounts

NextFlush ==
    \/ TickerFire
    \/ TickerReceive
    \/ CloseStop
    \/ \E f \in Flushers : FlushLock(f)
    \/ \E f \in Flushers : FlushSwap(f)
    \/ \E f \in Flushers : FlushSend(f)

SpecFlush == InitFlush /\ [][NextFlush]_vars

(***************************************************************************)
(* The claims.                                                             *)
(***************************************************************************)
ClientCall == call \in {"unaryClient", "streamClient"}
UnaryCall == call \in {"unaryClient", "unaryServer"}

\* the values the tracer wrote for key k, in the order it wrote them
InjectedFor(k) ==
    [i \in 1..Len(SelectSeq(injected, LAMBDA w : w.key = k)) |->
        SelectSeq(injected, LAMBDA w : w.key = k)[i].val]

\* C1: a span is finalized exactly once whatever path triggers it, further
\* RecvMsg calls after the end of the stream included: the completion callback
\* of a span never runs a second time.
ClaimC1_FinalizedExactlyOnce == Len(doneLog) <= 1

\* C2: what an interceptor returns is what the wrapped invoker, streamer or
\* handler returned: the same error and the same response; a client stream
\* that failed to open is returned as the streamer returned it, and one that
\* opened is returned wrapped.
ClaimC2_ResultPassedThrough ==
    (pc = "returned" \/ (call = "streamClient" /\ pc = "stream")) =>
        /\ ret.err = inner.err
        /\ ret.resp.val = inner.resp.val
        /\ (call # "streamClient" \/ inner.err # Nil) => ret.resp = inner.resp

\* C3: on a client stream the counts the span is finalized with are the
\* number of SendMsg calls and the number of successful RecvMsg calls made
\* before the RecvMsg that reported the end of the stream.
ClaimC3_ClientCountsSuccessfulReceives ==
    call = "streamClient" =>
        \A i \in 1..Len(doneLog) :
            /\ doneLog[i].span.sent = doneLog[i].hist.send
            /\ doneLog[i].span.received = doneLog[i].hist.recvOk

\* C4: on a server stream the counts the span is finalized with are the
\* number of SendMsg calls and the number of successful RecvMsg calls the
\* handler made.
ClaimC4_ServerCountsSuccessfulReceives ==
    (call = "streamServer" /\ pc = "returned") =>
        \A i \in 1..Len(doneLog) :
            /\ doneLog[i].span.sent = hist.send
            /\ doneLog[i].span.received = hist.recvOk

\* C5: with one sender and one receiver on a proxy no increment is lost, and
\* the counts tagged at finalization are the numbers of SendMsg calls and of
\* counted RecvMsg calls made on the stream by then.
ClaimC5_CountersSafeUnderConcurrency ==
    /\ (sPc = "idle" /\ rPc = "idle") =>
           /\ outCount = hist.send
           /\ inCount = hist.recvOk + hist.recvErr
    /\ \A i \in 1..Len(doneLog) :
           /\ doneLog[i].span.sent = doneLog[i].hist.send
           /\ doneLog[i].span.received =
                  doneLog[i].hist.recvOk + doneLog[i].hist.recvErr

\* C6: in both client interceptors the metadata given to the invoker or
\* streamer holds, for every key, the caller's values followed by the values
\* the tracer injected, and the caller's own metadata is as it was before
\* the call.
TheoremC6_CallerMetadataUntouched ==
    ClientCall =>
        /\ wireRef # 0
        /\ \A k \in Keys :
               heap[wireRef][k] = callerBefore[k] \o InjectedFor(k)
        /\ callerRef # 0 => heap[callerRef] = callerBefore

\* a client call whose caller already had the key the tracer injected
WitnessC6_InjectedExistingKey ==
    /\ ClientCall /\ callerRef # 0
    /\ callerBefore[TraceKey] # <<>>
    /\ InjectedFor(TraceKey) # <<>>
    /\ Len(heap[wireRef][TraceKey]) > Len(heap[callerRef][TraceKey])

\* C7: a client stream that fails to open has its span tagged as errored and
\* finalized by the time the interceptor returns; one that opens is not
\* finalized at return and is returned as a proxy.
ClaimC7_FailedOpenFinalizes ==
    call = "streamClient" =>
        /\ inner.err # Nil => (span.error /\ Len(doneLog) = 1)
        /\ (inner.err = Nil /\ Ops(hist) = 0) =>
               (doneLog = <<>> /\ ret.resp.proxy)

\* C8: a unary interceptor has run the completion callback exactly once when
\* it returns; the callback sees the error tag (and, on the server, the
\* rendered error message) exactly when the invoker or handler returned an
\* error, and that error is returned unchanged.
TheoremC8_UnaryFinalizedOnReturn ==
    UnaryCall =>
        /\ pc = "returned"
        /\ Len(doneLog) = 1
        /\ doneLog[1].span.error = (inner.err # Nil)
        /\ doneLog[1].span.errorMessage =
               (IF call = "unaryServer" /\ inner.err # Nil
                THEN Render(inner.err) ELSE "")
        /\ ret.err = inner.err

\* a unary client call whose invoker reported an expired deadline
WitnessC8_DeadlineExpired ==
    /\ call = "unaryClient" /\ pc = "returned"
    /\ inner.err = ErrDeadline /\ ret.err = ErrDeadline
    /\ Len(doneLog) = 1 /\ doneLog[1].span.error

\* C9: the server streaming interceptor does not finalize the span while the
\* handler runs and has finalized it exactly once when the handler has
\* returned; the completion callback sees the two message counts and, when
\* the handler returned an error, the error tag and the rendered message.
TheoremC9_ServerStreamFinalizedOnReturn ==
    call = "streamServer" =>
        /\ pc = "handler" => doneLog = <<>>
        /\ pc = "returned" =>
               /\ Len(doneLog) = 1
               /\ doneLog[1].span.received = inCount
               /\ doneLog[1].span.sent = outCount
               /\ doneLog[1].span.error = (inner.err # Nil)
               /\ doneLog[1].span.errorMessage =
                      (IF inner.err # Nil THEN Render(inner.err) ELSE "")

\* a handler that sent and received and then returned an error
WitnessC9_HandlerFailedAfterTraffic ==
    /\ call = "streamServer" /\ pc = "returned"
    /\ inner.err = ErrBoom
    /\ hist.send > 0 /\ hist.recvOk > 0
    /\ Len(doneLog) = 1
    /\ doneLog[1].span.errorMessage = "boom"
    /\ doneLog[1].span.sent = hist.send

\* every pair of md decodes
Decodable(md) ==
    \A k \in Keys : \A i \in 1..Len(md[k]) : DecodeKeyValue(k, md[k][i]).err = "nil"

\* C10: what the tracer wrote with Set, ForeachKey visits: every pair written
\* is visited with the same key and the same value, also for a key that was
\* already present and for a "-bin" key (stated for metadata whose earlier
\* pairs all decode and a visitor that never fails).
ClaimC10_SetThenForeachKeyRoundTrips ==
    (fe.ran /\ fe.handlerErrAt = 0 /\ Decodable(g0)) =>
        \A i \in 1..Len(setLog) :
            \E j \in 1..Len(fe.visited) : fe.visited[j] = setLog[i]

ServerCall == call \in {"unaryServer", "streamServer"}
\* the flight recorder holds a warning for this event
Warned(event) ==
    \E i \in 1..Len(log) : log[i] = [level |-> "warn", event |-> event]
\* what tracer.Extract returned for the metadata the server call came with
\* (the error does not depend on the order the map yields its keys in)
ExtractErrOf(md) == TracerExtract(md, CHOOSE o \in KeyOrders : TRUE).err

\* C11 as stated: a server call whose inbound metadata is absent or holds no
\* parent trace context logs no extraction warning and starts a root span
\* named "grpc:"+method before the handler runs.
ClaimC11_NoParentIsSilent ==
    (ServerCall /\ (callerRef = 0 \/ callerBefore[TraceKey] = <<>>)) =>
        /\ ~Warned("tracer_extract")
        /\ span.name = SpanName /\ span.parent = NoSpanCtx

\* C11, amended: a server call whose inbound metadata is absent, or holds no
\* parent trace context and only pairs that decode, gets the "not found"
\* outcome, logs no warning and runs the handler under a root span named
\* "grpc:"+method; a warning is logged exactly when extraction failed with an
\* error other than "not found".
TheoremC11_NotFoundIsSilent ==
    ServerCall =>
        /\ pc \in {"handler", "returned"} /\ invoked = 1
        /\ span.name = SpanName
        /\ telErr = ExtractErrOf(callerBefore)
        /\ (callerRef = 0 \/ (callerBefore[TraceKey] = <<>> /\ Decodable(callerBefore))) =>
               /\ ExtractErrOf(callerBefore) = "ErrSpanContextNotFound"
               /\ ~Warned("tracer_extract")
               /\ span.parent = NoSpanCtx
        /\ Warned("tracer_extract") =
               (ExtractErrOf(callerBefore) \notin {Nil, "ErrSpanContextNotFound"})

\* a streaming server call that came with metadata but no trace context: the
\* handler runs under a root span and nothing was logged
WitnessC11_PlainMetadataRootSpan ==
    /\ call = "streamServer" /\ pc = "handler"
    /\ callerRef # 0 /\ callerBefore[PlainKey] # <<>>
    /\ callerBefore[TraceKey] = <<>>
    /\ span.parent = NoSpanCtx /\ log = <<>>

\* the positions of fe.pairs whose pair does not decode
Undecodable ==
    {i \in 1..Len(fe.pairs) :
        DecodeKeyValue(fe.pairs[i].key, fe.pairs[i].val).err # "nil"}
\* how many pairs the range of ForeachKey got through: all of them, or those
\* before the first pair that does not decode
DecodedPrefix ==
    IF Undecodable = {} THEN Len(fe.pairs)
    ELSE (CHOOSE i \in Undecodable : \A j \in Undecodable : i <= j) - 1
\* the values of key k among the pairs the range walked, in order
WalkedFor(k) ==
    [i \in 1..Len(SelectSeq(fe.pairs, LAMBDA w : w.key = k)) |->
        SelectSeq(fe.pairs, LAMBDA w : w.key = k)[i].val]

\* C12: ForeachKey with a visitor that never fails walks every pair of the
\* metadata once; it calls the visitor once, in that order, with each pair
\* before the first one that does not decode, returns the decode error at
\* that pair without calling the visitor for it or for any later pair, and
\* when every pair decodes it visits them all and returns nil.
TheoremC12_ForeachKeyStopsAtDecodeError ==
    (fe.ran /\ fe.handlerErrAt = 0) =>
        /\ \A k \in Keys : WalkedFor(k) = g[k]
        /\ Len(fe.visited) = DecodedPrefix
        /\ \A i \in 1..DecodedPrefix :
               /\ fe.visited[i].key = fe.pairs[i].key
               /\ fe.visited[i].val =
                      DecodeKeyValue(fe.pairs[i].key, fe.pairs[i].val).val
        /\ fe.err = (IF Undecodable = {} THEN "nil" ELSE "decode")

\* a pair was visited, the next one did not decode, and a pair after it was
\* never shown to the visitor
WitnessC12_StoppedInTheMiddle ==
    /\ fe.ran /\ fe.handlerErrAt = 0
    /\ fe.err = "decode"
    /\ Len(fe.visited) >= 1
    /\ Len(fe.pairs) > Len(fe.visited) + 1

OpenedClientStream == call = "streamClient" /\ inner.err = Nil

\* C13: on a client stream that opened, the completion callback runs only
\* inside a RecvMsg that observed io.EOF: it has run as often as RecvMsg has
\* returned io.EOF, its i-th run was made by the i-th such RecvMsg, and every
\* operation of the proxy returned what the underlying stream returned.  A
\* stream on which no RecvMsg has seen io.EOF (abandoned, or ended by another
\* error) therefore has a span that was never finalized.
TheoremC13_OnlyEOFFinalizes ==
    OpenedClientStream =>
        /\ Len(doneLog) = hist.recvEOF
        /\ \A i \in 1..Len(doneLog) : doneLog[i].hist.recvEOF = i
        /\ opRet.ret = opRet.inner
        /\ hist.recvEOF = 0 => (doneLog = <<>> /\ span.received = -1)

\* a stream that sent, had another operation and ended with a RecvMsg error
\* that is not io.EOF: nothing finalized its span
WitnessC13_FailedStreamUnfinalized ==
    /\ OpenedClientStream
    /\ hist.send >= 1 /\ hist.other >= 1 /\ hist.recvErr >= 1
    /\ under = "failed" /\ opRet.op = "RecvMsg" /\ opRet.ret = ErrBoom
    /\ doneLog = <<>>

\* C14: when RecvMsg of the client proxy gets io.EOF from the underlying
\* stream, the completion callback sees the span already tagged with the two
\* counters as they stood (sent = SendMsg calls, received = RecvMsg calls
\* that did not return io.EOF), the call returns io.EOF unchanged, and the
\* received counter is not incremented by it.
TheoremC14_TaggedThenFinalizedThenEOF ==
    call = "streamClient" =>
        /\ inCount = hist.recvOk + hist.recvErr
        /\ \A i \in 1..Len(doneLog) :
               /\ doneLog[i].span.sent = doneLog[i].hist.send
               /\ doneLog[i].span.received =
                      doneLog[i].hist.recvOk + doneLog[i].hist.recvErr
        /\ (opRet.op = "RecvMsg" /\ opRet.inner = EOF) =>
               /\ opRet.ret = EOF
               /\ Len(doneLog) >= 1
               /\ doneLog[Len(doneLog)].span = span
               /\ doneLog[Len(doneLog)].hist = hist
               /\ span.sent = outCount /\ span.received = inCount

\* a stream with a send and a receive whose next RecvMsg returned io.EOF
WitnessC14_EOFAfterTraffic ==
    /\ call = "streamClient"
    /\ opRet.op = "RecvMsg" /\ opRet.ret = EOF
    /\ hist.send = 1 /\ hist.recvOk = 1 /\ hist.recvEOF = 1
    /\ Len(doneLog) = 1
    /\ doneLog[1].span.sent = 1 /\ doneLog[1].span.received = 1
    /\ inCount = 1

\* the interceptor has handed back its result (a client stream that opened
\* is handed back while it is still in use)
InterceptorReturned == pc = "returned" \/ (call = "streamClient" /\ pc = "stream")

\* C15: a telemetry failure does not abort or alter the call: the invoker,
\* streamer or handler has been invoked exactly once whatever the tracer
\* returned; a failed injection (client) or an extraction error other than
\* "not found" (server) is logged as a warning; and what the interceptor
\* returns carries the error and the value the invoker, streamer or handler
\* returned, never the tracer's error.
TheoremC15_TelemetryFailureIsLocal ==
    call # "none" =>
        /\ invoked = 1
        /\ ClientCall => Warned("tracer_inject") = (telErr # Nil)
        /\ ServerCall => Warned("tracer_extract") =
                             (telErr \notin {Nil, "ErrSpanContextNotFound"})
        /\ InterceptorReturned =>
               /\ ret.err = inner.err
               /\ ret.resp.val = inner.resp.val
               /\ telErr # Nil => ret.err # telErr

\* a unary server call whose extraction failed and whose handler returned
\* its own error: the warning is there and the handler's error came back
WitnessC15_ExtractionFailedHandlerError ==
    /\ call = "unaryServer" /\ pc = "returned"
    /\ telErr = "ErrSpanContextCorrupted"
    /\ Warned("tracer_extract")
    /\ invoked = 1
    /\ inner.err = ErrBoom /\ ret.err = ErrBoom

\* C16: the proxy the streaming server interceptor hands to the handler
\* holds the context derived from the stream's own context by adding the
\* span, for as long as the call lasts; every Context() call on the proxy
\* returns that context and not the one the underlying stream returns.
TheoremC16_ProxyContextCarriesSpan ==
    call = "streamServer" =>
        /\ proxyCtx = StreamCtx \o ">span(" \o SpanName \o ")"
        /\ proxyCtx # StreamCtx
        /\ opRet.op = "Context" =>
               /\ opRet.ret = proxyCtx
               /\ opRet.inner = StreamCtx
               /\ opRet.ret # opRet.inner

\* the handler asked the proxy for its context after other traffic
WitnessC16_ContextAfterTraffic ==
    /\ call = "streamServer" /\ pc = "handler"
    /\ hist.other >= 2 /\ hist.send >= 1
    /\ opRet.op = "Context"
    /\ opRet.ret = ContextWithSpan(StreamCtx, SpanName)

\* the values Set was called with for key k, in call order
SetFor(k) ==
    [i \in 1..Len(SelectSeq(setLog, LAMBDA w : w.key = k)) |->
        SelectSeq(setLog, LAMBDA w : w.key = k)[i].val]

\* C17: Set appends and never overwrites: after any sequence of Set calls
\* the list of every key is the list it had before, followed by the values
\* set for that key in call order; a key that was not set keeps its list.
TheoremC17_SetAppends ==
    \A k \in Keys :
        /\ g[k] = g0[k] \o SetFor(k)
        /\ SetFor(k) = <<>> => g[k] = g0[k]

\* two different values set for a key that already had one, while another
\* key held values
WitnessC17_TwoSetsOnExistingKey ==
    /\ Len(setLog) = 2
    /\ setLog[1].key = BinKey /\ setLog[2].key = BinKey
    /\ setLog[1].val # setLog[2].val
    /\ g0[BinKey] # <<>> /\ g0[PlainKey] # <<>>
    /\ Len(g[BinKey]) = Len(g0[BinKey]) + 2

\* the events handed to TrackBatched so far, in one sequence
AllEvents ==
    LET upTo[i \in 0..Len(batches)] ==
            IF i = 0 THEN <<>> ELSE upTo[i - 1] \o batches[i].events
    IN  upTo[Len(batches)]
\* over the events evs: the sum of pre_sampling and of post_sampling for p
EmittedFor(evs, p) ==
    LET upTo[i \in 0..Len(evs)] ==
            IF i = 0 THEN NoCount
            ELSE IF evs[i].project_id # p THEN upTo[i - 1]
            ELSE [preSampling |-> upTo[i - 1].preSampling + evs[i].pre_sampling,
                  postSampling |-> upTo[i - 1].postSampling + evs[i].post_sampling]
    IN  upTo[Len(evs)]
\* what a flusher has swapped out for p and not yet handed to TrackBatched
HeldBy(f, p) ==
    IF \E i \in 1..Len(rest[f]) : rest[f][i] = p THEN taken[f][p] ELSE NoCount
\* what p.counts holds for p
Counted(p) == IF p \in DOMAIN counts THEN counts[p] ELSE NoCount

\* C18: whatever the interleaving of Track calls and flushes, every Track
\* call that has returned is counted exactly once: for every project, the
\* events handed to TrackBatched, the maps flushes have swapped out and not
\* yet sent, and p.counts add up to the number of Track calls that returned
\* (pre_sampling) and the number of those with inSample (post_sampling); and
\* postSampling <= preSampling in p.counts and in every event.
TheoremC18_NoTrackLostOrDoubled ==
    /\ \E evs \in {AllEvents} :
         /\ \A p \in DOMAIN tracked :
              \E e \in {EmittedFor(evs, p)} :
                /\ e.preSampling + HeldBy("ticker", p).preSampling
                     + HeldBy("close", p).preSampling + Counted(p).preSampling
                       = tracked[p].preSampling
                /\ e.postSampling + HeldBy("ticker", p).postSampling
                     + HeldBy("close", p).postSampling + Counted(p).postSampling
                       = tracked[p].postSampling
         /\ \A i \in 1..Len(evs) :
              /\ evs[i].post_sampling <= evs[i].pre_sampling
              /\ evs[i].project_id \in DOMAIN tracked
    /\ \A p \in DOMAIN counts : counts[p].postSampling <= counts[p].preSampling

\* two Track calls for a new project, one counted by each of two flushes:
\* everything is flushed and the two events add up to the two calls
WitnessC18_TracksSplitOverTwoFlushes ==
    /\ counts = EmptyCounts
    /\ \A f \in Flushers : rest[f] = <<>>
    /\ (PreTracked + 1) \in DOMAIN tracked
    /\ tracked[PreTracked + 1] = [preSampling |-> 2, postSampling |-> 1]
    /\ \E i, j \in 1..Len(batches) :
         /\ batches[i].flush # batches[j].flush
         /\ \E a \in 1..Len(batches[i].events), b \in 1..Len(batches[j].events) :
              /\ batches[i].events[a].project_id = PreTracked + 1
              /\ batches[j].events[b].project_id = PreTracked + 1

\* the batches of flush k, in the order they were sent
BatchesOf(k) == SelectSeq(batches, LAMBDA b : b.flush = k)
\* the project ids of the events of the batches bs
ProjectsIn(bs) ==
    UNION {{bs[i].events[j].project_id : j \in 1..Len(bs[i].events)} :
              i \in 1..Len(bs)}
\* the number of events in the batches bs
EventCount(bs) ==
    LET upTo[i \in 0..Len(bs)] ==
            IF i = 0 THEN 0 ELSE upTo[i - 1] + Len(bs[i].events)
    IN  upTo[Len(bs)]
\* flush k is still sending
Sending(k) == fPc[flushes[k].by] = "send" /\ FlushOf(flushes[k].by) = k
\* the keys flush k has still to send
Unsent(k) ==
    IF Sending(k)
    THEN {rest[flushes[k].by][i] : i \in 1..Len(rest[flushes[k].by])}
    ELSE {}

\* C19: every TrackBatched call carries between 1 and maxBatchSize events;
\* the events of one flush are one per project of the map it swapped out (no
\* project twice, and all of them once the flush has returned, whether or not
\* an earlier batch failed), each with the project's counts; a flush of an
\* empty map makes no call; num_sent_events is the number of events handed
\* over, and success and failures count the calls that returned nil and those
\* that returned an error.
TheoremC19_OneEventPerProjectInBatches ==
    /\ \A i \in 1..Len(batches) :
         /\ Len(batches[i].events) >= 1
         /\ Len(batches[i].events) <= maxBatchSize
         /\ \A j \in 1..Len(batches[i].events) :
              \E e \in {batches[i].events[j]} :
                /\ e.pre_sampling = tracked[e.project_id].preSampling
                /\ e.post_sampling = tracked[e.project_id].postSampling
                /\ e.count = e.pre_sampling
    /\ \A k \in 1..Len(flushes) :
         \E bs \in {BatchesOf(k)} :
           /\ EventCount(bs) = Cardinality(ProjectsIn(bs))
           /\ ProjectsIn(bs) \cup Unsent(k) = flushes[k].keys
           /\ ProjectsIn(bs) \cap Unsent(k) = {}
           /\ flushes[k].keys = {} => bs = <<>>
    /\ metrics.numSentEvents = EventCount(batches)
    /\ metrics.success = Len(SelectSeq(batches, LAMBDA b : b.err = Nil))
    /\ metrics.failures = Len(SelectSeq(batches, LAMBDA b : b.err # Nil))

\* a flush of more than two batches' worth of projects has returned: its
\* first call failed, the later ones were made all the same, the last one
\* with what was left
WitnessC19_LaterBatchesAfterFailure ==
    \E k \in 1..Len(flushes) :
        /\ ~Sending(k)
        /\ Len(BatchesOf(k)) >= 3
        /\ BatchesOf(k)[1].err # Nil
        /\ Len(BatchesOf(k)[1].events) = maxBatchSize
        /\ BatchesOf(k)[Len(BatchesOf(k))].err = Nil
        /\ Len(BatchesOf(k)[Len(BatchesOf(k))].events) < maxBatchSize
        /\ metrics.failures = 1 /\ metrics.success >= 2
        /\ \E j \in 1..Len(flushes) : flushes[j].keys = {}

\* Close has returned
CloseReturned == fPc["close"] = "returned"
\* every Track call that had returned when Close was called is in an event
\* handed to TrackBatched
SentAllTrackedAtClose ==
    \E evs \in {AllEvents} :
        \A p \in DOMAIN atClose :
            EmittedFor(evs, p).preSampling >= atClose[p].preSampling
\* no flush of the ticker goroutine swapped the map after Close returned
NoFlushAfterClose ==
    \A k \in 1..Len(flushes) :
        ~(flushes[k].by = "ticker" /\ flushes[k].afterClose)

\* C20: when Close has returned, every Track call that returned before Close
\* was called has been handed to TrackBatched, and the ticker goroutine, which
\* never terminates, starts no flush after Close has returned.
ClaimC20_CloseSendsAllAndStopsFlushing ==
    /\ CloseReturned => SentAllTrackedAtClose
    /\ NoFlushAfterClose
    /\ fPc["ticker"] \in {"wait", "lock", "swap", "send"}

====
